---- MODULE Spec2Model ----
(***************************************************************************)
(* A model of sync_data.py: the DataSyncManager that expands named         *)
(* directories into rsync sync pairs (load_config), merges the persisted   *)
(* sync_config.json onto them, saves the result (save_config), and runs    *)
(* the enabled pairs one after the other (sync_all / sync_pair).  Also     *)
(* modelled: the creation and audit of the remote directories              *)
(* (setup_sync_directories), the rsync argument vector                     *)
(* (build_rsync_command), the report on rsync's output, sync_pair_by_name  *)
(* the command-line entry point (main), and a caller that runs sync_all    *)
(* twice on one manager (main.py).                                         *)
(*                                                                         *)
(* Representation.  A path is a sequence of tokens, each either the        *)
(* separator "/" or a separator-free segment, so that str.rstrip("/") and  *)
(* the f-string f"{base}/{dir}" are computed on the text and not assumed.  *)
(* A Python dict is a TLA+ record; an optional key is a key that may be    *)
(* missing from DOMAIN.  Pair names are real strings built with \o.        *)
(* pathlib's exists()/is_dir() are taken as total (they answer, they do    *)
(* not raise).  rsync is not run: a successful real invocation mirrors the *)
(* source into the destination and removes what only the destination holds *)
(* iff --delete is among the options; one file f, matched by no exclude    *)
(* pattern, stands for the contents of a directory.                        *)
(***************************************************************************)
EXTENDS Naturals, Sequences, FiniteSets, TLC

VARIABLES
    local_data_root, local_video_root,      \* DataSyncManager attributes
    remote_data_base, remote_video_base,
    data_dirs, video_dirs, one_way_video_dirs,
    checksum_mode,
    config,                                 \* self.config
    config_file,                            \* <remote_data_base>/syncing_scripts/sync_config.json
    load_status,                            \* which branch of the override merge ran
    save_status,                            \* how save_config ended
    read_file,                              \* the file as load_config found it
    reads, writes,                          \* times this process opened the file to read, to write
    last_run,                               \* what the previous process left behind
    runs,                                   \* processes started so far
    fs,                                     \* kind of each tracked path
    contents,                               \* what each tracked directory holds of the file f
    fs_before, contents_before,             \* fs and contents when sync_all was entered
    first_sync,                             \* what an earlier sync_all of this process did
    dry_run, idx, success_count, total_count,
    log,                                    \* one record per sync_pair call of this sync_all
    result,                                 \* return value of sync_all
    audit,                                  \* what check_unsynced_directories reported
    rsync_output,                           \* text returned by a successful run_rsync
    report,                                 \* what sync_pair logged about that text
    pair_arg,                                \* the name given with --pair or to sync_pair_by_name
    exit_code,                              \* exit status of the command-line entry point
    cmd_args,                               \* arguments of the last build_rsync_command call
    cmd,                                    \* the argument vector it returned
    pc

manager == <<local_data_root, local_video_root, remote_data_base, remote_video_base,
             data_dirs, video_dirs, one_way_video_dirs, checksum_mode>>
store == <<config, config_file, load_status, save_status, read_file, reads, writes>>
history == <<last_run, runs>>
run == <<dry_run, idx, success_count, total_count, log, result>>
reported == <<rsync_output, report>>
cli == <<pair_arg, exit_code>>
built == <<cmd_args, cmd>>
aux == <<audit, reported, cli, built>>
before == <<fs_before, contents_before, first_sync>>
vars == <<manager, store, history, fs, contents, before, run, aux, pc>>

----------------------------------------------------------------------------
(* Bounds of the model *)

MaxDirs == 2          \* longest directory list drawn for the generation runs
MaxLoadDirs == 1      \* longest directory list drawn for the merge runs
MaxUserPairs == 2     \* most sync_pairs entries in a hand-edited document
MaxRuns == 2          \* processes per behaviour
MaxSyncDirs == 1      \* longest data_dirs drawn for the execution runs

DirNames == {"a", "b"}

----------------------------------------------------------------------------
(* Text helpers *)

RECURSIVE rstrip(_)
rstrip(s) ==
    IF Len(s) > 0 /\ s[Len(s)] = "/" THEN rstrip(SubSeq(s, 1, Len(s) - 1)) ELSE s

JoinDir(base, dir) == base \o <<"/", dir>>

Contains(seq, x) == \E i \in 1..Len(seq) : seq[i] = x

RECURSIVE SeqsUpTo(_, _)
SeqsUpTo(S, n) ==
    IF n = 0 THEN {<<>>}
    ELSE LET shorter == SeqsUpTo(S, n - 1)
         IN  shorter \cup {Append(s, x) : s \in shorter, x \in S}

----------------------------------------------------------------------------
(* load_config: pair generation *)

rsync_options_safe(cm) ==
    <<"-av", "--progress", "--no-perms", "--no-group">>
        \o (IF cm THEN <<"--checksum">> ELSE <<>>)

MutDeleteDropped(cm) == rsync_options_safe(cm)

rsync_options_with_delete(cm) ==
    <<"-av", "--delete", "--progress", "--no-perms", "--no-group">>
        \o (IF cm THEN <<"--checksum">> ELSE <<>>)

MutOneWayDeletes(cm) == rsync_options_with_delete(cm)

rsync_options_oneway(cm) ==
    <<"-av", "--progress", "--no-perms", "--no-group">>
        \o (IF cm THEN <<"--checksum">> ELSE <<>>)

to_local_pair(cat, dir, remote, local, cm) ==
    [name |-> cat \o "_" \o dir \o "_to_local",
     source |-> JoinDir(rstrip(remote), dir),
     destination |-> JoinDir(rstrip(local), dir),
     enabled |-> TRUE,
     rsync_options |-> rsync_options_safe(cm)]

to_remote_pair(cat, dir, remote, local, cm) ==
    [name |-> cat \o "_" \o dir \o "_to_remote",
     source |-> JoinDir(rstrip(local), dir),
     destination |-> JoinDir(rstrip(remote), dir),
     enabled |-> TRUE,
     rsync_options |-> rsync_options_with_delete(cm)]

MutOneWayNamedToRemote(dir, remote, local, cm) ==
    [name |-> "video_" \o dir \o "_to_remote",
     source |-> JoinDir(rstrip(local), dir),
     destination |-> JoinDir(rstrip(remote), dir),
     enabled |-> TRUE,
     rsync_options |-> rsync_options_oneway(cm),
     description |-> "One-way sync: local -> remote only"]

oneway_pair(dir, remote, local, cm) ==
    [name |-> "video_" \o dir \o "_oneway",
     source |-> JoinDir(rstrip(local), dir),
     destination |-> JoinDir(rstrip(remote), dir),
     enabled |-> TRUE,
     rsync_options |-> rsync_options_oneway(cm),
     description |-> "One-way sync: local -> remote only"]

RECURSIVE MutPushBeforePull(_, _, _, _, _)
MutPushBeforePull(cat, dirs, remote, local, cm) ==
    IF dirs = <<>> THEN <<>>
    ELSE <<to_remote_pair(cat, Head(dirs), remote, local, cm),
           to_local_pair(cat, Head(dirs), remote, local, cm)>>
         \o MutPushBeforePull(cat, Tail(dirs), remote, local, cm)

RECURSIVE bidirectional_pairs(_, _, _, _, _)
bidirectional_pairs(cat, dirs, remote, local, cm) ==
    IF dirs = <<>> THEN <<>>
    ELSE <<to_local_pair(cat, Head(dirs), remote, local, cm),
           to_remote_pair(cat, Head(dirs), remote, local, cm)>>
         \o bidirectional_pairs(cat, Tail(dirs), remote, local, cm)

RECURSIVE MutOneWaySkipsRepeats(_, _, _, _)
MutOneWaySkipsRepeats(dirs, remote, local, cm) ==
    IF dirs = <<>> THEN <<>>
    ELSE (IF Contains(Tail(dirs), Head(dirs)) THEN <<>>
          ELSE <<oneway_pair(Head(dirs), remote, local, cm)>>)
         \o MutOneWaySkipsRepeats(Tail(dirs), remote, local, cm)

RECURSIVE oneway_pairs(_, _, _, _)
oneway_pairs(dirs, remote, local, cm) ==
    IF dirs = <<>> THEN <<>>
    ELSE <<oneway_pair(Head(dirs), remote, local, cm)>>
         \o oneway_pairs(Tail(dirs), remote, local, cm)

sync_pairs ==
    bidirectional_pairs("data", data_dirs, remote_data_base, local_data_root, checksum_mode)
    \o bidirectional_pairs("video", video_dirs, remote_video_base, local_video_root, checksum_mode)
    \o oneway_pairs(one_way_video_dirs, remote_video_base, local_video_root, checksum_mode)

default_global_rsync_options == <<"-av", "--progress">>

default_exclude_patterns ==
    <<"*.tmp", "*.log", ".DS_Store", "Thumbs.db", "__pycache__", "*.pyc">>

default_config ==
    [sync_pairs |-> sync_pairs,
     global_rsync_options |-> default_global_rsync_options,
     exclude_patterns |-> default_exclude_patterns]

----------------------------------------------------------------------------
(* load_config: the persisted document and the override merge *)

NoConfig == [unset |-> TRUE]
NoRun == [none |-> TRUE]

Missing == [kind |-> "missing"]
Corrupt == [kind |-> "corrupt"]
Document(doc) == [kind |-> "doc", doc |-> doc]

\* json.dump(self.config): every key of the in-memory config is written.
json_dump(cfg) == Document(cfg)

\* user_pairs = {pair["name"]: pair for pair in user_config["sync_pairs"]}
\* raises KeyError on an entry without "name".
user_pairs_raises(entries) ==
    \E i \in 1..Len(entries) : "name" \notin DOMAIN entries[i]

\* A later entry of the same name replaces an earlier one in the dict.
user_pairs_has(entries, name) ==
    \E i \in 1..Len(entries) : entries[i].name = name

user_pairs_get(entries, name) ==
    LET last == CHOOSE i \in 1..Len(entries) :
                    /\ entries[i].name = name
                    /\ \A j \in (i + 1)..Len(entries) : entries[j].name # name
    IN  entries[last]

\* user_pairs[name].get("enabled", True)
get_enabled(entry) == IF "enabled" \in DOMAIN entry THEN entry.enabled ELSE TRUE

MutMergeTakesWholeEntry(pair, entries) ==
    IF user_pairs_has(entries, pair.name)
    THEN user_pairs_get(entries, pair.name) @@ pair
    ELSE pair

merge_enabled(pair, entries) ==
    IF user_pairs_has(entries, pair.name)
    THEN [pair EXCEPT !.enabled = get_enabled(user_pairs_get(entries, pair.name))]
    ELSE pair

MutExcludesAppended(cfg, doc) ==
    IF "exclude_patterns" \in DOMAIN doc
    THEN [cfg EXCEPT !.exclude_patterns = @ \o doc.exclude_patterns]
    ELSE cfg

merge_exclude_patterns(cfg, doc) ==
    IF "exclude_patterns" \in DOMAIN doc
    THEN [cfg EXCEPT !.exclude_patterns = doc.exclude_patterns]
    ELSE cfg

merge_global_rsync_options(cfg, doc) ==
    IF "global_rsync_options" \in DOMAIN doc
    THEN [cfg EXCEPT !.global_rsync_options = doc.global_rsync_options]
    ELSE cfg

merge_sync_pairs(cfg, entries) ==
    [cfg EXCEPT !.sync_pairs =
        [i \in 1..Len(cfg.sync_pairs) |-> merge_enabled(cfg.sync_pairs[i], entries)]]

\* Lines 270-287: the config after the try block, and how the block ended.
\* The assignments made before an exception stay made.
apply_user_config(cfg, file) ==
    IF file.kind = "missing" THEN [config |-> cfg, status |-> "missing"]
    ELSE IF file.kind = "corrupt" THEN [config |-> cfg, status |-> "failed"]
    ELSE LET doc == file.doc
             c2 == merge_exclude_patterns(merge_global_rsync_options(cfg, doc), doc)
         IN  IF "sync_pairs" \notin DOMAIN doc
             THEN [config |-> c2, status |-> "loaded"]
             ELSE IF user_pairs_raises(doc.sync_pairs)
             THEN [config |-> c2, status |-> "failed"]
             ELSE [config |-> merge_sync_pairs(c2, doc.sync_pairs), status |-> "loaded"]

\* save_config: open(config_path, 'w') may fail (file untouched), the write may
\* fail after the file was truncated, or the document is written.
SaveOutcomes == {"ok", "open_failed", "write_failed"}

save_config(file, cfg, outcome) ==
    IF outcome = "ok" THEN json_dump(cfg)
    ELSE IF outcome = "open_failed" THEN file
    ELSE Corrupt

MutSaveOnlyWhenChanged ==
    /\ pc = "start"
    /\ LET applied == apply_user_config(default_config, config_file)
       IN  /\ config' = applied.config
           /\ load_status' = applied.status
           /\ read_file' = config_file
           /\ reads' = reads + (IF config_file.kind = "missing" THEN 0 ELSE 1)
           /\ IF config_file = json_dump(applied.config)
              THEN /\ save_status' = "ok"
                   /\ UNCHANGED <<config_file, writes>>
              ELSE \E outcome \in SaveOutcomes :
                      /\ save_status' = outcome
                      /\ writes' = writes + 1
                      /\ config_file' = save_config(config_file, applied.config, outcome)
    /\ pc' = "loaded"
    /\ UNCHANGED <<manager, history, fs, contents, before, run, aux>>

\* load_config: generation, override merge (one read of the document when it
\* exists), then save_config (one write, whatever was merged).
load_config ==
    /\ pc = "start"
    /\ LET applied == apply_user_config(default_config, config_file)
       IN  /\ config' = applied.config
           /\ load_status' = applied.status
           /\ read_file' = config_file
           /\ reads' = reads + (IF config_file.kind = "missing" THEN 0 ELSE 1)
           /\ writes' = writes + 1
           /\ \E outcome \in SaveOutcomes :
                /\ save_status' = outcome
                /\ config_file' = save_config(config_file, applied.config, outcome)
    /\ pc' = "loaded"
    /\ UNCHANGED <<manager, history, fs, contents, before, run, aux>>

----------------------------------------------------------------------------
(* The generation runs: inputs drawn in Init, load_config applied *)

\* Hand-edited documents: entries whose source, destination and options are
\* stale, with and without "enabled", with and without "name".
StalePath == <<"/", "stale", "/", "x">>
StaleOptions == <<"-av", "--delete", "--stale">>

StaleEntry(name) ==
    [name |-> name, source |-> StalePath, destination |-> StalePath,
     rsync_options |-> StaleOptions]

\* A record holding key only when opt is the one-element sequence <<value>>.
OptionalKey(key, opt) == [k \in (IF opt = <<>> THEN {} ELSE {key}) |-> opt[1]]

UserEntries(name) ==
    {StaleEntry(name) @@ OptionalKey("enabled", e) : e \in {<<>>, <<TRUE>>, <<FALSE>>}}
    \cup {StaleEntry("video_gone_oneway") @@ [enabled |-> FALSE]}
    \cup {[enabled |-> FALSE, source |-> StalePath]}

UserDocuments(name) ==
    {OptionalKey("global_rsync_options", g) @@ OptionalKey("exclude_patterns", x)
        @@ OptionalKey("sync_pairs", p) :
        g \in {<<>>, << <<"-a">> >>},
        x \in {<<>>, << <<"*.bak">> >>},
        p \in {<<>>} \cup {<<q>> : q \in SeqsUpTo(UserEntries(name), MaxUserPairs)}}

\* The name the hand-edited entries refer to: the last generated pair's
\* (a name the current lists do not generate when they are all empty).
EditedName == IF sync_pairs = <<>> THEN "data_a_to_local" ELSE sync_pairs[Len(sync_pairs)].name

RemoteDir == <<"/", "r", "/", "a">>
LocalRoot == <<"/", "l">>
LocalDir == <<"/", "l", "/", "a">>

\* No sync_all has returned yet in this process.
NoFirstSync == [done |-> FALSE, dry_run |-> FALSE, log |-> <<>>, contents_before |-> <<>>]

IdleRun ==
    /\ dry_run = FALSE /\ idx = 0 /\ success_count = 0 /\ total_count = 0
    /\ log = <<>> /\ result = FALSE
    /\ fs_before = <<>> /\ contents_before = <<>>
    /\ first_sync = NoFirstSync

NoAudit == [none |-> TRUE]

NoReport == [none |-> TRUE]

\* No pair was named (args.pair is empty); exit_code counts once pc is "exited".
NoArg == ""

IdleCli == pair_arg = NoArg /\ exit_code = 0

NoCall == [none |-> TRUE]

IdleBuild == cmd_args = NoCall /\ cmd = <<>>

IdleAux ==
    audit = NoAudit /\ rsync_output = <<>> /\ report = NoReport /\ IdleCli /\ IdleBuild

FreshStore ==
    /\ config = NoConfig /\ load_status = "none" /\ save_status = "none"
    /\ read_file = Missing /\ reads = 0 /\ writes = 0
    /\ last_run = NoRun /\ runs = 1

GenInit ==
    /\ \E roots \in {<<LocalRoot, LocalRoot>>, <<LocalRoot \o <<"/", "/">>, <<"/", "lv", "/">> >>} :
          local_data_root = roots[1] /\ local_video_root = roots[2]
    /\ remote_data_base = <<"/", "r", "/">>
    /\ remote_video_base \in {<<"/", "r", "/">>, <<"/", "rv">>}
    /\ data_dirs \in SeqsUpTo(DirNames, MaxDirs)
    /\ video_dirs \in SeqsUpTo(DirNames, MaxDirs)
    /\ one_way_video_dirs \in SeqsUpTo(DirNames, MaxDirs)
    /\ checksum_mode \in BOOLEAN
    /\ config_file \in {Missing,
                        Document([sync_pairs |-> <<StaleEntry(EditedName) @@ [enabled |-> FALSE]>>])}
    /\ fs = <<>> /\ contents = <<>>
    /\ FreshStore /\ IdleRun /\ IdleAux
    /\ pc = "start"

GenNext == load_config

SpecGen == GenInit /\ [][GenNext]_vars

----------------------------------------------------------------------------
(* The merge runs: a hand-edited or missing document, then consecutive processes *)

LoadInit ==
    /\ local_data_root = <<"/", "l">>
    /\ local_video_root = <<"/", "l">>
    /\ remote_data_base = <<"/", "r", "/">>
    /\ remote_video_base = <<"/", "r", "/">>
    /\ data_dirs \in SeqsUpTo({"a"}, MaxLoadDirs)
    /\ video_dirs \in SeqsUpTo({"a"}, MaxLoadDirs)
    /\ one_way_video_dirs \in SeqsUpTo({"a"}, MaxLoadDirs)
    /\ checksum_mode \in BOOLEAN
    /\ config_file \in {Missing, Corrupt} \cup {Document(d) : d \in UserDocuments(EditedName)}
    /\ fs = <<>> /\ contents = <<>>
    /\ FreshStore /\ IdleRun /\ IdleAux
    /\ pc = "start"

\* The process ends and the script is started again with the same lists.
Restart ==
    /\ pc \in {"loaded", "done"}
    /\ runs < MaxRuns
    /\ last_run' = [config |-> config, config_file |-> config_file, save_status |-> save_status]
    /\ runs' = runs + 1
    /\ config' = NoConfig /\ load_status' = "none" /\ save_status' = "none"
    /\ read_file' = Missing /\ reads' = 0 /\ writes' = 0
    /\ dry_run' = FALSE /\ idx' = 0 /\ success_count' = 0 /\ total_count' = 0
    /\ log' = <<>> /\ result' = FALSE
    /\ pc' = "start"
    /\ UNCHANGED <<manager, config_file, fs, contents, before, aux>>

LoadNext == load_config \/ Restart

SpecLoad == LoadInit /\ [][LoadNext]_vars

----------------------------------------------------------------------------
(* build_rsync_command.  An element of the argument vector is a text, that  *)
(* is a token sequence: an option or pattern is the one-token text of its   *)
(* string, a path is its token sequence.                                    *)

Arg(string) == <<string>>

Args(strings) == [i \in 1..Len(strings) |-> Arg(strings[i])]

RECURSIVE exclude_args(_)
\* for pattern in exclude_patterns: cmd.extend(["--exclude", pattern])
exclude_args(patterns) ==
    IF patterns = <<>> THEN <<>>
    ELSE <<Arg("--exclude"), Arg(Head(patterns))>> \o exclude_args(Tail(patterns))

\* self.config.get("exclude_patterns", [])
get_exclude_patterns(cfg) ==
    IF "exclude_patterns" \in DOMAIN cfg THEN cfg.exclude_patterns ELSE <<>>

MutDryRunAfterPaths(cfg, source, destination, rsync_options, dry) ==
    <<Arg("rsync")>>
        \o Args(rsync_options)
        \o (IF ~Contains(rsync_options, "-v") /\ ~Contains(rsync_options, "--verbose")
            THEN <<Arg("-v")>> ELSE <<>>)
        \o (IF ~Contains(rsync_options, "--stats") THEN <<Arg("--stats")>> ELSE <<>>)
        \o (IF ~Contains(rsync_options, "--itemize-changes")
            THEN <<Arg("--itemize-changes")>> ELSE <<>>)
        \o exclude_args(get_exclude_patterns(cfg))
        \o <<rstrip(source) \o <<"/">>, rstrip(destination)>>
        \o (IF dry THEN <<Arg("--dry-run")>> ELSE <<>>)

build_rsync_command(cfg, source, destination, rsync_options, dry) ==
    <<Arg("rsync")>>
        \o Args(rsync_options)
        \o (IF ~Contains(rsync_options, "-v") /\ ~Contains(rsync_options, "--verbose")
            THEN <<Arg("-v")>> ELSE <<>>)
        \o (IF ~Contains(rsync_options, "--stats") THEN <<Arg("--stats")>> ELSE <<>>)
        \o (IF ~Contains(rsync_options, "--itemize-changes")
            THEN <<Arg("--itemize-changes")>> ELSE <<>>)
        \o exclude_args(get_exclude_patterns(cfg))
        \o (IF dry THEN <<Arg("--dry-run")>> ELSE <<>>)
        \o <<rstrip(source) \o <<"/">>, rstrip(destination)>>

\* Calls with the fields of a configured pair, as run_rsync makes them.
PairCalls ==
    {[source |-> config.sync_pairs[k].source,
      destination |-> config.sync_pairs[k].destination,
      rsync_options |-> config.sync_pairs[k].rsync_options,
      generated |-> TRUE] : k \in 1..Len(config.sync_pairs)}

\* Calls with other arguments: options that already ask for some of the
\* reports, paths given with trailing separators.
OtherCalls ==
    [source : {LocalDir, LocalDir \o <<"/">>, LocalDir \o <<"/", "/">>, <<"/">>},
     destination : {RemoteDir, RemoteDir \o <<"/">>},
     rsync_options : {<<>>, <<"-v">>, <<"--verbose", "--stats">>,
                      <<"-a", "--stats", "--itemize-changes", "-v">>},
     generated : {FALSE}]

build_command ==
    /\ pc = "loaded"
    /\ \E call \in PairCalls \cup OtherCalls : \E dry \in BOOLEAN :
          /\ cmd_args' = call @@ [dry_run |-> dry]
          /\ cmd' = build_rsync_command(config, call.source, call.destination,
                                        call.rsync_options, dry)
    /\ pc' = "built"
    /\ UNCHANGED <<manager, store, history, fs, contents, before, run, audit, reported, cli>>

CmdInit ==
    /\ local_data_root = LocalRoot /\ local_video_root = LocalRoot
    /\ remote_data_base = <<"/", "r", "/">> /\ remote_video_base = <<"/", "r", "/">>
    /\ data_dirs = <<"a">> /\ video_dirs = <<>>
    /\ one_way_video_dirs \in {<<>>, <<"a">>}
    /\ checksum_mode \in BOOLEAN
    /\ config_file \in {Missing, Document([exclude_patterns |-> <<>>]),
                        Document([exclude_patterns |-> <<"*.bak">>])}
    /\ fs = <<>> /\ contents = <<>>
    /\ FreshStore /\ IdleRun /\ IdleAux
    /\ pc = "start"

CmdNext == load_config \/ build_command

SpecCmd == CmdInit /\ [][CmdNext]_vars

----------------------------------------------------------------------------
(* validate_paths, run_rsync, sync_pair, sync_all *)

\* A path the model does not track (above the roots) is an existing directory.
Kind(files, path) == IF path \in DOMAIN files THEN files[path] ELSE "dir"

\* Path(destination).parent
Parent(path) == SubSeq(path, 1, Len(path) - 2)

\* validate_paths: the verdict and the file system it leaves (the destination's
\* parent is created when missing; mkdir_ok says whether that mkdir succeeds).
validate_paths(files, source, destination, mkdir_ok) ==
    IF Kind(files, source) = "absent"
    THEN [valid |-> FALSE, reason |-> "missing", fs |-> files]
    ELSE IF Kind(files, source) # "dir"
    THEN [valid |-> FALSE, reason |-> "not_dir", fs |-> files]
    ELSE IF Kind(files, Parent(destination)) = "absent"
    THEN IF mkdir_ok
         THEN [valid |-> TRUE, reason |-> "ok",
               fs |-> [files EXCEPT ![Parent(destination)] = "dir"]]
         ELSE [valid |-> FALSE, reason |-> "cannot_create", fs |-> files]
    ELSE [valid |-> TRUE, reason |-> "ok", fs |-> files]

\* subprocess.run(cmd, check=True): rsync exits 0, exits non-zero, or cannot be
\* started.  rsync does not mirror a directory onto an existing regular file.
RsyncOutcomes(files, destination) ==
    IF Kind(files, destination) = "file" THEN {"exit_nonzero", "launch_error"}
    ELSE {"ok", "exit_nonzero", "launch_error"}

\* The file system after the invocation: a real (not --dry-run) successful
\* mirror leaves the destination directory in place.
run_rsync(files, destination, dry, outcome) ==
    IF outcome = "ok" /\ ~dry THEN [files EXCEPT ![destination] = "dir"] ELSE files

MutMirrorKeepsExisting(src, dst, delete) ==
    IF dst # "none" THEN (IF src = "none" /\ delete THEN "none" ELSE dst) ELSE src

\* What rsync leaves in the destination of one file: the source's copy when
\* the source has one; else nothing under --delete and the old copy without.
mirror(src, dst, delete) ==
    IF src # "none" THEN src ELSE IF delete THEN "none" ELSE dst

MutMirrorRegardlessOfOutcome(held, pair, dry, outcome) ==
    IF ~dry /\ {pair.source, pair.destination} \subseteq DOMAIN held
    THEN [held EXCEPT ![pair.destination] =
             mirror(held[pair.source], held[pair.destination],
                    Contains(pair.rsync_options, "--delete"))]
    ELSE held

\* The file f after the invocation: only a real, successful mirror moves it.
run_rsync_files(held, pair, dry, outcome) ==
    IF outcome = "ok" /\ ~dry /\ {pair.source, pair.destination} \subseteq DOMAIN held
    THEN [held EXCEPT ![pair.destination] =
             mirror(held[pair.source], held[pair.destination],
                    Contains(pair.rsync_options, "--delete"))]
    ELSE held

MutSyncPairSkipsValidation(files, held, pair, dry, mkdir_ok, outcome) ==
    LET v == validate_paths(files, pair.source, pair.destination, mkdir_ok)
    IN  [valid |-> v.valid, reason |-> v.reason, invoked |-> TRUE,
         success |-> outcome = "ok",
         fs |-> run_rsync(v.fs, pair.destination, dry, outcome),
         contents |-> run_rsync_files(held, pair, dry, outcome)]

\* sync_pair: what it did and returned.
sync_pair(files, held, pair, dry, mkdir_ok, outcome) ==
    LET v == validate_paths(files, pair.source, pair.destination, mkdir_ok)
    IN  IF ~v.valid
        THEN [valid |-> FALSE, reason |-> v.reason, invoked |-> FALSE,
              success |-> FALSE, fs |-> v.fs, contents |-> held]
        ELSE [valid |-> TRUE, reason |-> v.reason, invoked |-> TRUE,
              success |-> outcome = "ok",
              fs |-> run_rsync(v.fs, pair.destination, dry, outcome),
              contents |-> run_rsync_files(held, pair, dry, outcome)]

MutEveryPairEnabled(pair) == TRUE

\* pair.get("enabled", True)
is_enabled(pair) == IF "enabled" \in DOMAIN pair THEN pair.enabled ELSE TRUE

MutStopAtFirstFailure(i, success, n) == IF success THEN i + 1 ELSE n + 1

\* for pair in self.config["sync_pairs"]: the loop goes on to the next pair
\* whatever sync_pair returned.
next_pair(i, success, n) == i + 1

\* What the log file holds about one call of sync_pair on the pair at position k.
LogEntry(k, r) ==
    [pair |-> k, valid |-> r.valid, reason |-> r.reason, invoked |-> r.invoked,
     success |-> r.success]

sync_all_begin ==
    /\ pc = "loaded"
    /\ dry_run' \in BOOLEAN
    /\ idx' = 1 /\ success_count' = 0 /\ total_count' = 0
    /\ log' = <<>> /\ result' = FALSE
    /\ fs_before' = fs /\ contents_before' = contents
    /\ pc' = "syncing"
    /\ UNCHANGED <<manager, store, history, fs, contents, first_sync, aux>>

\* One iteration of the loop of sync_all.
sync_all_step ==
    /\ pc = "syncing"
    /\ idx <= Len(config.sync_pairs)
    /\ LET pair == config.sync_pairs[idx]
       IN  IF ~is_enabled(pair)
           THEN /\ idx' = idx + 1
                /\ UNCHANGED <<fs, contents, success_count, total_count, log>>
           ELSE \E mkdir_ok \in BOOLEAN :
                \E outcome \in RsyncOutcomes(fs, pair.destination) :
                    LET r == sync_pair(fs, contents, pair, dry_run, mkdir_ok, outcome)
                    IN  /\ total_count' = total_count + 1
                        /\ success_count' = success_count + (IF r.success THEN 1 ELSE 0)
                        /\ log' = Append(log, LogEntry(idx, r))
                        /\ fs' = r.fs
                        /\ contents' = r.contents
                        /\ idx' = next_pair(idx, r.success, Len(config.sync_pairs))
    /\ UNCHANGED <<manager, store, history, before, dry_run, result, aux, pc>>

sync_all_end ==
    /\ pc = "syncing"
    /\ idx > Len(config.sync_pairs)
    /\ result' = (success_count = total_count)
    /\ pc' = "done"
    /\ UNCHANGED <<manager, store, history, fs, contents, before, dry_run, idx, success_count,
                   total_count, log, aux>>

\* A caller that runs sync_all a second time on the same manager, as main.py
\* does (a preview, then the sync): the counters start again, the pairs and the
\* file system are those the first call left.
sync_all_again ==
    /\ pc = "done"
    /\ ~first_sync.done
    /\ first_sync' = [done |-> TRUE, dry_run |-> dry_run, log |-> log,
                      contents_before |-> contents_before]
    /\ dry_run' \in BOOLEAN
    /\ idx' = 1 /\ success_count' = 0 /\ total_count' = 0
    /\ log' = <<>> /\ result' = FALSE
    /\ fs_before' = fs /\ contents_before' = contents
    /\ pc' = "syncing"
    /\ UNCHANGED <<manager, store, history, fs, contents, aux>>

----------------------------------------------------------------------------
(* main: the command-line entry point, after create_sync_manager *)

MutFindEnabledPair(pairs, name) ==
    IF \E k \in 1..Len(pairs) : pairs[k].name = name /\ is_enabled(pairs[k])
    THEN CHOOSE k \in 1..Len(pairs) :
            /\ pairs[k].name = name /\ is_enabled(pairs[k])
            /\ \A j \in 1..(k - 1) : ~(pairs[j].name = name /\ is_enabled(pairs[j]))
    ELSE 0

\* The position of the first pair named name, 0 when there is none.
find_pair(pairs, name) ==
    IF \E k \in 1..Len(pairs) : pairs[k].name = name
    THEN CHOOSE k \in 1..Len(pairs) :
            /\ pairs[k].name = name
            /\ \A j \in 1..(k - 1) : pairs[j].name # name
    ELSE 0

\* The names a caller may ask for: those of the configured pairs and one other.
PairNames == {config.sync_pairs[k].name : k \in 1..Len(config.sync_pairs)} \cup {"no_such_pair"}

\* sync_pair_by_name(pair_name, dry_run): the first pair of that name is handed
\* to sync_pair and its result returned; False when no pair has the name.
sync_pair_by_name ==
    /\ pc = "loaded"
    /\ \E name \in PairNames : \E dry \in BOOLEAN :
          LET k == find_pair(config.sync_pairs, name)
          IN  /\ pair_arg' = name
              /\ dry_run' = dry
              /\ IF k = 0
                 THEN /\ result' = FALSE
                      /\ UNCHANGED <<fs, contents, log>>
                 ELSE \E mkdir_ok \in BOOLEAN :
                      \E outcome \in RsyncOutcomes(fs, config.sync_pairs[k].destination) :
                          LET r == sync_pair(fs, contents, config.sync_pairs[k], dry,
                                             mkdir_ok, outcome)
                          IN  /\ log' = <<LogEntry(k, r)>>
                              /\ fs' = r.fs
                              /\ contents' = r.contents
                              /\ result' = r.success
    /\ pc' = "returned"
    /\ UNCHANGED <<manager, store, history, before, idx, success_count, total_count,
                   audit, reported, exit_code, built>>

\* main with --list: the pairs are printed and main returns.
main_list ==
    /\ pc = "loaded"
    /\ exit_code' = 0
    /\ pc' = "exited"
    /\ UNCHANGED <<manager, store, history, fs, contents, before, run, audit, reported, pair_arg,
                   built>>

\* main with --pair NAME: the first pair of that name is handed to sync_pair and
\* its return value dropped; sys.exit(1) is reached only when no pair matched.
main_pair ==
    /\ pc = "loaded"
    /\ \E name \in PairNames : \E dry \in BOOLEAN :
          LET k == find_pair(config.sync_pairs, name)
          IN  /\ pair_arg' = name
              /\ dry_run' = dry
              /\ IF k = 0
                 THEN /\ exit_code' = 1
                      /\ UNCHANGED <<fs, contents, log>>
                 ELSE \E mkdir_ok \in BOOLEAN :
                      \E outcome \in RsyncOutcomes(fs, config.sync_pairs[k].destination) :
                          LET r == sync_pair(fs, contents, config.sync_pairs[k], dry, mkdir_ok, outcome)
                          IN  /\ log' = <<LogEntry(k, r)>>
                              /\ fs' = r.fs
                              /\ contents' = r.contents
                              /\ exit_code' = 0
    /\ pc' = "exited"
    /\ UNCHANGED <<manager, store, history, before, idx, success_count, total_count, result,
                   audit, reported, built>>

\* main without --list and --pair: sys.exit(0 if success else 1) after sync_all.
main_exit ==
    /\ pc = "done"
    /\ exit_code' = (IF result THEN 0 ELSE 1)
    /\ pc' = "exited"
    /\ UNCHANGED <<manager, store, history, fs, contents, before, run, audit, reported, pair_arg,
                   built>>

----------------------------------------------------------------------------
(* The execution runs: one process that loads the config and runs sync_all *)

\* The document a run saved, with the pairs at the positions in off disabled by hand.
ToggledDocument(off) ==
    json_dump([default_config EXCEPT !.sync_pairs =
        [k \in 1..Len(sync_pairs) |-> [sync_pairs[k] EXCEPT !.enabled = k \notin off]]])

\* setup_sync_directories has made the remote directories (or found something
\* in their place); the local side is whatever the machine holds.
InitialFileSystems ==
    {f \in [{RemoteDir, LocalRoot, LocalDir} -> {"dir", "file", "absent"}] :
        /\ f[RemoteDir] # "absent"
        /\ f[LocalRoot] # "file"
        /\ f[LocalRoot] = "absent" => f[LocalDir] = "absent"}

\* The file f in the two directories: absent ("none") or one of two versions,
\* named so that the remote copy, when there is one, is "v1".
InitialDisks ==
    {d \in [fs : InitialFileSystems,
            contents : [{RemoteDir, LocalDir} -> {"none", "v1", "v2"}]] :
        /\ d.contents[RemoteDir] # "v2"
        /\ \A p \in {RemoteDir, LocalDir} : d.contents[p] # "none" => d.fs[p] = "dir"}

Init ==
    /\ local_data_root = <<"/", "l">>
    /\ local_video_root = <<"/", "l">>
    /\ remote_data_base = <<"/", "r", "/">>
    /\ remote_video_base = <<"/", "r", "/">>
    /\ data_dirs \in SeqsUpTo({"a"}, MaxSyncDirs)
    /\ video_dirs \in {<<>>, <<"a">>}
    /\ one_way_video_dirs \in {<<>>, <<"a">>}
    /\ checksum_mode = TRUE
    /\ config_file \in {Missing, Corrupt, ToggledDocument({1}),
                        ToggledDocument({1, Len(sync_pairs)}),
                        ToggledDocument(1..Len(sync_pairs))}
    /\ \E disk \in InitialDisks : fs = disk.fs /\ contents = disk.contents
    /\ FreshStore /\ IdleRun /\ IdleAux
    /\ pc = "start"

Next == load_config \/ sync_all_begin \/ sync_all_step \/ sync_all_end

Spec == Init /\ [][Next]_vars

\* The repeated runs: the caller may call sync_all once more after it returned.
AgainNext ==
    \/ load_config
    \/ sync_all_begin
    \/ sync_all_step
    \/ sync_all_end
    \/ sync_all_again

\* One bidirectional directory, with or without a one-way pair on the same
\* two directories; every pair enabled, or the first one disabled by hand.
AgainInit ==
    /\ local_data_root = <<"/", "l">>
    /\ local_video_root = <<"/", "l">>
    /\ remote_data_base = <<"/", "r", "/">>
    /\ remote_video_base = <<"/", "r", "/">>
    /\ data_dirs = <<"a">>
    /\ video_dirs = <<>>
    /\ one_way_video_dirs \in {<<>>, <<"a">>}
    /\ checksum_mode = TRUE
    /\ config_file \in {Missing, ToggledDocument({1})}
    /\ \E disk \in InitialDisks : fs = disk.fs /\ contents = disk.contents
    /\ FreshStore /\ IdleRun /\ IdleAux
    /\ pc = "start"

SpecAgain == AgainInit /\ [][AgainNext]_vars

\* The command-line runs: data_dirs may name its directory twice, so that two
\* pairs can carry one name.
CliInit ==
    /\ local_data_root = <<"/", "l">>
    /\ local_video_root = <<"/", "l">>
    /\ remote_data_base = <<"/", "r", "/">>
    /\ remote_video_base = <<"/", "r", "/">>
    /\ data_dirs \in {<<"a">>, <<"a", "a">>}
    /\ video_dirs = <<>>
    /\ one_way_video_dirs \in {<<>>, <<"a">>}
    /\ checksum_mode = TRUE
    /\ config_file \in {Missing, ToggledDocument({1, 3})}
    /\ \E disk \in InitialDisks : fs = disk.fs /\ contents = disk.contents
    /\ FreshStore /\ IdleRun /\ IdleAux
    /\ pc = "start"

CliNext ==
    \/ load_config
    \/ sync_pair_by_name
    \/ main_list
    \/ main_pair
    \/ sync_all_begin
    \/ sync_all_step
    \/ sync_all_end
    \/ main_exit

SpecCli == CliInit /\ [][CliNext]_vars

----------------------------------------------------------------------------
(* setup_sync_directories and check_unsynced_directories: the remote        *)
(* directories are created, then each remote base is listed and compared    *)
(* with the configured names.                                               *)

MaxAuditDirs == 1     \* longest data_dirs and video_dirs drawn for the audit runs

AuditNames == DirNames \cup {"x"}

Range(seq) == {seq[i] : i \in 1..Len(seq)}

RECURSIVE make_dirs(_, _, _)
\* One creation loop: os.makedirs for every name whose path does not exist.
make_dirs(files, base, dirs) ==
    IF dirs = <<>> THEN files
    ELSE LET dir_path == JoinDir(rstrip(base), Head(dirs))
             made == IF Kind(files, dir_path) = "absent"
                     THEN [p \in DOMAIN files |->
                              IF p \in {dir_path, rstrip(base)} THEN "dir" ELSE files[p]]
                     ELSE files
         IN  make_dirs(made, base, Tail(dirs))

\* [d for d in os.listdir(base) if os.path.isdir(os.path.join(base, d))]
list_dirs(files, base) ==
    {d \in AuditNames : Kind(files, JoinDir(rstrip(base), d)) = "dir"}

\* The audit of one base against the names given for it.
unsynced_dirs(files, base, all_synced_dirs, readable) ==
    IF Kind(files, rstrip(base)) = "absent" THEN [status |-> "skipped", dirs |-> {}]
    ELSE IF ~readable THEN [status |-> "denied", dirs |-> {}]
    ELSE [status |-> "listed",
          dirs |-> {d \in list_dirs(files, base) : d \notin all_synced_dirs}]

check_unsynced_directories(files, readable) ==
    [data |-> unsynced_dirs(files, remote_data_base, Range(data_dirs),
                            readable[rstrip(remote_data_base)]),
     video |-> unsynced_dirs(files, remote_video_base,
                             Range(video_dirs \o one_way_video_dirs),
                             readable[rstrip(remote_video_base)])]

RemoteBases == {rstrip(remote_data_base), rstrip(remote_video_base)}

setup_sync_directories ==
    /\ pc = "setup"
    /\ \E readable \in [RemoteBases -> BOOLEAN] :
          LET created == make_dirs(make_dirs(make_dirs(fs, remote_data_base, data_dirs),
                                             remote_video_base, video_dirs),
                                   remote_video_base, one_way_video_dirs)
          IN  /\ fs' = created
              /\ audit' = check_unsynced_directories(created, readable)
    /\ pc' = "start"
    /\ UNCHANGED <<manager, store, history, contents, before, run, reported, cli, built>>

\* The remote volumes before setup: each base with the entries a, b and x.
AuditFileSystems(bases) ==
    {f \in [bases \cup {JoinDir(b, d) : b \in bases, d \in AuditNames}
               -> {"dir", "file", "absent"}] :
        \A b \in bases :
            /\ f[b] # "file"
            /\ \A d \in AuditNames :
                  /\ f[b] = "absent" => f[JoinDir(b, d)] = "absent"
                  /\ f[JoinDir(b, d)] = "file" => d = "x"}

AuditInit ==
    /\ local_data_root = LocalRoot /\ local_video_root = LocalRoot
    /\ remote_data_base = <<"/", "r", "/">>
    /\ remote_video_base \in {<<"/", "r", "/">>, <<"/", "rv">>}
    /\ data_dirs \in SeqsUpTo(DirNames, MaxAuditDirs)
    /\ video_dirs \in SeqsUpTo(DirNames, MaxAuditDirs)
    /\ one_way_video_dirs \in {<<>>, <<"b">>}
    /\ checksum_mode = TRUE
    /\ config_file = Missing
    /\ fs \in AuditFileSystems(RemoteBases) /\ contents = <<>>
    /\ FreshStore /\ IdleRun /\ IdleAux
    /\ pc = "setup"

AuditNext == setup_sync_directories

SpecAudit == AuditInit /\ [][AuditNext]_vars

----------------------------------------------------------------------------
(* sync_pair after a successful run_rsync: the output is scanned line by    *)
(* line and summarised in the log.  A line is a sequence of tokens: " " is  *)
(* white space, the one-character tokens are themselves, "f" is any other   *)
(* text, and the phrases the code searches for are tokens of their own.     *)

MaxOutputLines == 2   \* lines of free output drawn in front of the repeated block

ShownChanges == 20
ShownStats == 10

Markers == {">", "<", "c", "h", "*"}
StatsTexts == {"Number of files", "Total file size", "Total transferred file size"}

RECURSIVE strip_right(_)
strip_right(line) ==
    IF Len(line) > 0 /\ line[Len(line)] = " "
    THEN strip_right(SubSeq(line, 1, Len(line) - 1)) ELSE line

RECURSIVE strip_left(_)
strip_left(line) ==
    IF Len(line) > 0 /\ line[1] = " " THEN strip_left(Tail(line)) ELSE line

strip(line) == strip_left(strip_right(line))

startswith(line, texts) == Len(line) > 0 /\ line[1] \in texts

RECURSIVE drop_blank_head(_)
drop_blank_head(lines) ==
    IF lines # <<>> /\ strip(Head(lines)) = <<>> THEN drop_blank_head(Tail(lines)) ELSE lines

RECURSIVE drop_blank_tail(_)
drop_blank_tail(lines) ==
    IF lines # <<>> /\ strip(lines[Len(lines)]) = <<>>
    THEN drop_blank_tail(SubSeq(lines, 1, Len(lines) - 1)) ELSE lines

\* output.strip().split('\n') of a text given as its lines.
split_lines(output) ==
    LET kept == drop_blank_tail(drop_blank_head(output))
    IN  IF kept = <<>> THEN << <<>> >>
        ELSE [i \in 1..Len(kept) |->
                 LET left == IF i = 1 THEN strip_left(kept[i]) ELSE kept[i]
                 IN  IF i = Len(kept) THEN strip_right(left) ELSE left]

RECURSIVE scan_lines(_, _)
\* The for loop over output_lines; acc holds its three local variables.
scan_lines(lines, acc) ==
    IF lines = <<>> THEN acc
    ELSE LET line == strip(Head(lines))
             next == IF line = <<>> THEN acc
                     ELSE IF startswith(line, Markers)
                     THEN [acc EXCEPT !.file_changes = Append(@, line)]
                     ELSE IF \E t \in StatsTexts : Contains(line, t)
                     THEN [acc EXCEPT !.stats_section = TRUE, !.stats_lines = Append(@, line)]
                     ELSE IF acc.stats_section
                             /\ (Contains(line, ":") \/ startswith(line, {"sent ", "total size"}))
                     THEN [acc EXCEPT !.stats_lines = Append(@, line)]
                     ELSE acc
         IN  scan_lines(Tail(lines), next)

FirstN(seq, n) == SubSeq(seq, 1, IF Len(seq) < n THEN Len(seq) ELSE n)

IsSummaryLine(line) == startswith(line, {"sent ", "total size"})

MutStatisticsFirst(output) ==
    LET output_lines == split_lines(output)
        acc == scan_lines(output_lines,
                          [file_changes |-> <<>>, stats_section |-> FALSE, stats_lines |-> <<>>])
    IN  IF acc.stats_lines # <<>>
        THEN [kind |-> "statistics", shown |-> FirstN(acc.stats_lines, ShownStats), more |-> 0]
        ELSE IF acc.file_changes # <<>>
        THEN [kind |-> "changed", shown |-> FirstN(acc.file_changes, ShownChanges),
              more |-> IF Len(acc.file_changes) > ShownChanges
                       THEN Len(acc.file_changes) - ShownChanges ELSE 0]
        ELSE [kind |-> "in_sync", shown |-> SelectSeq(output_lines, IsSummaryLine), more |-> 0]

\* What sync_pair logs for the output of a successful invocation.
output_report(output) ==
    LET output_lines == split_lines(output)
        acc == scan_lines(output_lines,
                          [file_changes |-> <<>>, stats_section |-> FALSE, stats_lines |-> <<>>])
    IN  IF acc.file_changes # <<>>
        THEN [kind |-> "changed", shown |-> FirstN(acc.file_changes, ShownChanges),
              more |-> IF Len(acc.file_changes) > ShownChanges
                       THEN Len(acc.file_changes) - ShownChanges ELSE 0]
        ELSE IF acc.stats_lines # <<>>
        THEN [kind |-> "statistics", shown |-> FirstN(acc.stats_lines, ShownStats), more |-> 0]
        ELSE [kind |-> "in_sync", shown |-> SelectSeq(output_lines, IsSummaryLine), more |-> 0]

sync_pair_report ==
    /\ pc = "invoked"
    /\ report' = output_report(rsync_output)
    /\ pc' = "reported"
    /\ UNCHANGED <<manager, store, history, fs, contents, before, run, audit, rsync_output, cli, built>>

OutputLines ==
    {<<">", "f">>, <<"<", "f">>, <<"c", "f">>, <<"h", "f">>, <<"*", "f">>,
     <<" ", ">", "f">>, <<"c", "Number of files">>,
     <<"Number of files", ":", "f">>, <<"Total file size", ":", "f">>,
     <<"Total transferred file size", ":", "f">>,
     <<"f", ":", "f">>, <<"sent ", "f">>, <<"total size", "f">>, <<" ", "sent ", "f">>,
     <<>>, <<" ">>, <<"f">>}

\* n lines of one kind, told apart by alternating two forms.
Repeated(first, second, n) == [i \in 1..n |-> IF i % 2 = 1 THEN first ELSE second]

Blocks ==
    {Repeated(<<">", "f">>, <<"*", "f">>, n) :
        n \in {0, ShownChanges - 1, ShownChanges, ShownChanges + 1}}
    \cup {Repeated(<<"Number of files", ":", "f">>, <<"f", ":", "f">>, n) :
             n \in {ShownStats, ShownStats + 1}}

ReportInit ==
    /\ local_data_root = LocalRoot /\ local_video_root = LocalRoot
    /\ remote_data_base = <<"/", "r", "/">> /\ remote_video_base = <<"/", "r", "/">>
    /\ data_dirs = <<"a">> /\ video_dirs = <<>> /\ one_way_video_dirs = <<>>
    /\ checksum_mode = TRUE
    /\ config_file = Missing
    /\ fs = <<>> /\ contents = <<>>
    /\ FreshStore /\ IdleRun
    /\ audit = NoAudit /\ report = NoReport /\ IdleCli /\ IdleBuild
    /\ \E head \in SeqsUpTo(OutputLines, MaxOutputLines) : \E block \in Blocks :
          rsync_output = head \o block
    /\ pc = "invoked"

ReportNext == sync_pair_report

SpecReport == ReportInit /\ [][ReportNext]_vars

----------------------------------------------------------------------------
(* Properties of the generated pairs *)

Loaded == pc # "start"

Pairs == config.sync_pairs

NumData == Len(data_dirs)
NumVideo == Len(video_dirs)
NumOneWay == Len(one_way_video_dirs)

HasDelete(pair) == Contains(pair.rsync_options, "--delete")

Occurrences(seq, x) == Cardinality({i \in 1..Len(seq) : seq[i] = x})

NoRepeats(seq) == \A i, j \in 1..Len(seq) : seq[i] = seq[j] => i = j

NamedCount(names) == Cardinality({k \in 1..Len(Pairs) : Pairs[k].name \in names})

\* p and q are the two members generated for entry dir of category cat.
BidirectionalGroup(p, q, cat, dir, remote, local) ==
    /\ p.name = cat \o "_" \o dir \o "_to_local"
    /\ q.name = cat \o "_" \o dir \o "_to_remote"
    /\ p.source = rstrip(remote) \o <<"/", dir>>
    /\ p.destination = rstrip(local) \o <<"/", dir>>
    /\ q.source = p.destination
    /\ q.destination = p.source
    /\ ~HasDelete(p)
    /\ HasDelete(q)
    /\ NamedCount({p.name, q.name}) =
          2 * Occurrences(IF cat = "data" THEN data_dirs ELSE video_dirs, dir)

\* C1: every entry of data_dirs and of video_dirs yields exactly two pairs, the
\* remote->local one ('_to_local') then the local->remote one ('_to_remote'),
\* with each other's paths swapped; the first never has --delete and the second
\* always has it, in both checksum modes.
C1_DeleteAsymmetry ==
    Loaded =>
        /\ \A i \in 1..NumData :
              BidirectionalGroup(Pairs[2 * i - 1], Pairs[2 * i], "data", data_dirs[i],
                                 remote_data_base, local_data_root)
        /\ \A i \in 1..NumVideo :
              BidirectionalGroup(Pairs[2 * NumData + 2 * i - 1], Pairs[2 * NumData + 2 * i],
                                 "video", video_dirs[i], remote_video_base, local_video_root)

C1_Witness ==
    /\ Loaded /\ checksum_mode /\ load_status = "loaded"
    /\ NumData >= 1 /\ NumVideo >= 1
    /\ \E i \in 1..NumData : \E j \in 1..NumVideo : data_dirs[i] = video_dirs[j]

\* C2: the number of generated pairs is 2d + 2v + w for list lengths d, v, w;
\* an empty list contributes nothing and no entry is dropped.
C2_PairCount ==
    Loaded => Len(Pairs) = 2 * NumData + 2 * NumVideo + NumOneWay

C2_Witness ==
    /\ Loaded /\ NumData = 0 /\ NumVideo = 1 /\ NumOneWay = 2
    /\ one_way_video_dirs[1] = one_way_video_dirs[2]
    /\ Len(Pairs) = 4

NamesDistinct == \A i, j \in 1..Len(Pairs) : Pairs[i].name = Pairs[j].name => i = j

\* C3 as stated: for any contents of the three lists the generated names are
\* pairwise distinct.
C3_NamesDistinctForAnyLists == Loaded => NamesDistinct

\* C3 amended: when no list repeats an entry (the lists may share entries with
\* each other), the generated names are pairwise distinct.
C3_NamesDistinctWithoutRepeats ==
    (Loaded /\ NoRepeats(data_dirs) /\ NoRepeats(video_dirs) /\ NoRepeats(one_way_video_dirs))
        => NamesDistinct

C3_Witness ==
    /\ Loaded
    /\ NoRepeats(data_dirs) /\ NoRepeats(video_dirs) /\ NoRepeats(one_way_video_dirs)
    /\ NumData = 2 /\ NumVideo = 2 /\ NumOneWay = 2
    /\ Len(Pairs) = 10

\* C4: every entry of one_way_video_dirs yields exactly one pair, from
\* local_video_root to remote_video_base, without --delete; one-way pairs carry
\* a description and bidirectional pairs carry none.
C4_OneWay ==
    Loaded =>
        /\ Len(Pairs) = 2 * NumData + 2 * NumVideo + NumOneWay
        /\ \A i \in 1..NumOneWay :
              LET p == Pairs[2 * NumData + 2 * NumVideo + i]
                  dir == one_way_video_dirs[i]
              IN  /\ p.name = "video_" \o dir \o "_oneway"
                  /\ p.source = rstrip(local_video_root) \o <<"/", dir>>
                  /\ p.destination = rstrip(remote_video_base) \o <<"/", dir>>
                  /\ ~HasDelete(p)
                  /\ "description" \in DOMAIN p
                  /\ NamedCount({p.name}) = Occurrences(one_way_video_dirs, dir)
        /\ \A k \in 1..(2 * NumData + 2 * NumVideo) : "description" \notin DOMAIN Pairs[k]

C4_Witness ==
    /\ Loaded /\ NumOneWay >= 1 /\ NumVideo >= 1 /\ NumData >= 1
    /\ \E i \in 1..NumOneWay : \E j \in 1..NumVideo : one_way_video_dirs[i] = video_dirs[j]

----------------------------------------------------------------------------
(* Properties of the override merge *)

ReadEntries == read_file.doc.sync_pairs

ReadParseable == read_file.kind = "doc" /\ "sync_pairs" \in DOMAIN read_file.doc

Fresh(k) == [Pairs[k] EXCEPT !.enabled = TRUE] = sync_pairs[k]

\* Some entry of the document read is named as pair k and says enabled=false.
SomeEntryDisables(k) ==
    \E i \in 1..Len(ReadEntries) :
        /\ "name" \in DOMAIN ReadEntries[i] /\ ReadEntries[i].name = Pairs[k].name
        /\ "enabled" \in DOMAIN ReadEntries[i] /\ ReadEntries[i].enabled = FALSE

\* The last entry of the document read that is named as pair k says enabled=false.
LastEntryDisables(k) ==
    \E i \in 1..Len(ReadEntries) :
        /\ ReadEntries[i].name = Pairs[k].name
        /\ "enabled" \in DOMAIN ReadEntries[i] /\ ReadEntries[i].enabled = FALSE
        /\ \A j \in (i + 1)..Len(ReadEntries) : ReadEntries[j].name # Pairs[k].name

\* C5 as stated: a parseable prior document with an entry named X saying
\* enabled=false leaves the generated pair X disabled, with freshly generated
\* source, destination and options.
C5_DisabledPreservedAnyDocument ==
    (pc = "loaded" /\ ReadParseable) =>
        \A k \in 1..Len(Pairs) :
            SomeEntryDisables(k) => (Pairs[k].enabled = FALSE /\ Fresh(k))

\* C5 amended: when the prior document is applied without error (every
\* sync_pairs entry has a name) and the last entry named X says enabled=false,
\* pair X is disabled and its source, destination and options are the fresh ones.
C5_DisabledPreserved ==
    (pc = "loaded" /\ ReadParseable /\ load_status = "loaded") =>
        \A k \in 1..Len(Pairs) :
            LastEntryDisables(k) => (Pairs[k].enabled = FALSE /\ Fresh(k))

C5_Witness ==
    /\ pc = "loaded" /\ ReadParseable /\ load_status = "loaded"
    /\ \E k \in 1..Len(Pairs) :
          /\ LastEntryDisables(k)
          /\ Pairs[k].enabled = FALSE
          /\ Pairs[k].source # StalePath
          /\ Pairs[k].rsync_options # StaleOptions

\* C6: a second load_config after one that saved its result, with the same
\* lists and mode, gives the same config; the persisted document is the same
\* too unless the second write broke off after truncating the file.
C6_Idempotent ==
    (pc = "loaded" /\ last_run # NoRun /\ last_run.save_status = "ok") =>
        /\ config = last_run.config
        /\ save_status # "write_failed" => config_file = last_run.config_file

C6_Witness ==
    /\ pc = "loaded" /\ last_run # NoRun /\ last_run.save_status = "ok"
    /\ save_status = "ok"
    /\ config.exclude_patterns # default_exclude_patterns
    /\ \E k \in 1..Len(Pairs) : Pairs[k].enabled = FALSE

\* C7: when the prior document is missing or fails to load, the config is
\* exactly the defaults.
C7_FailedLoadGivesDefaults ==
    (pc = "loaded" /\ load_status \in {"missing", "failed"}) => config = default_config

----------------------------------------------------------------------------
(* Properties of sync_all and sync_pair *)

RECURSIVE EnabledBefore(_)
\* The positions below i of the enabled pairs, in list order.
EnabledBefore(i) ==
    IF i <= 1 THEN <<>>
    ELSE EnabledBefore(i - 1)
            \o (IF Pairs[i - 1].enabled THEN <<i - 1>> ELSE <<>>)

Attempted == [i \in 1..Len(log) |-> log[i].pair]

Successes == Cardinality({i \in 1..Len(log) : log[i].success})

\* C8: sync_all calls sync_pair once for every enabled pair, in list order,
\* whatever the earlier pairs returned; total_count counts the enabled pairs,
\* success_count those whose sync_pair returned success, and sync_all returns
\* success exactly when the two are equal.
C8_EveryEnabledPairAttemptedOnce ==
    /\ pc = "syncing" =>
          /\ Attempted = EnabledBefore(idx)
          /\ total_count = Len(log)
          /\ success_count = Successes
    /\ pc = "done" =>
          /\ Attempted = EnabledBefore(Len(Pairs) + 1)
          /\ total_count = Len(EnabledBefore(Len(Pairs) + 1))
          /\ success_count = Successes
          /\ result = (success_count = total_count)

C8_Witness ==
    /\ pc = "done" /\ success_count = 1 /\ total_count = 2 /\ ~result
    /\ log[1].reason = "missing" /\ ~log[1].invoked
    /\ log[2].invoked /\ log[2].success

AllDisabled == \A k \in 1..Len(Pairs) : Pairs[k].enabled = FALSE

\* C9: with every pair disabled sync_all validates nothing, invokes nothing,
\* touches nothing and ends with 0 of 0.
C9_AllDisabledDoesNothing ==
    (pc \in {"syncing", "done"} /\ AllDisabled) =>
        /\ log = <<>>
        /\ success_count = 0 /\ total_count = 0
        /\ pc = "done" => result

C9_Witness ==
    /\ pc = "done" /\ AllDisabled /\ Len(Pairs) >= 3
    /\ fs[LocalRoot] = "absent"

\* C10: a pair whose validation fails (source missing, source not a directory,
\* destination parent not creatable) is never handed to rsync and counts as failed.
C10_NoInvocationAfterFailedValidation ==
    \A i \in 1..Len(log) :
        /\ log[i].valid = (log[i].reason = "ok")
        /\ ~log[i].valid => (~log[i].invoked /\ ~log[i].success)

C10_Witness ==
    /\ pc = "done"
    /\ \E i, j \in 1..Len(log) :
          /\ log[i].reason = "cannot_create" /\ ~log[i].invoked
          /\ log[j].reason = "missing" /\ ~log[j].invoked

----------------------------------------------------------------------------
(* Properties of the audit of the remote bases *)

\* The remote directories that some generated pair reads or writes.
Configured ==
    {JoinDir(rstrip(remote_data_base), d) : d \in Range(data_dirs)}
        \cup {JoinDir(rstrip(remote_video_base), d) :
                 d \in Range(video_dirs) \cup Range(one_way_video_dirs)}

\* The immediate subdirectories of base that are configured for no sync.
Unconfigured(base) ==
    {d \in AuditNames : /\ fs[JoinDir(rstrip(base), d)] = "dir"
                        /\ JoinDir(rstrip(base), d) \notin Configured}

\* C11: for each remote base that could be listed, the audit reports exactly
\* the immediate subdirectories of that base that are configured for no sync,
\* through none of data_dirs, video_dirs and one_way_video_dirs (nothing when
\* there is none), also when the two bases are the same path.
C11_ReportsExactlyUnconfigured ==
    audit # NoAudit =>
        /\ audit.data.status = "listed" => audit.data.dirs = Unconfigured(remote_data_base)
        /\ audit.video.status = "listed" => audit.video.dirs = Unconfigured(remote_video_base)

----------------------------------------------------------------------------
(* Properties of the report on a successful invocation *)

\* The lines of the output as the scan sees them: stripped, blank ones dropped.
ScannedLines ==
    LET stripped == [i \in 1..Len(rsync_output) |-> strip(rsync_output[i])]
        NotBlank(line) == line # <<>>
    IN  SelectSeq(stripped, NotBlank)

ItemizeLines ==
    LET Itemized(line) == line[1] \in Markers
    IN  SelectSeq(ScannedLines, Itemized)

HasStatsLine ==
    \E i \in 1..Len(ScannedLines) : \E j \in 1..Len(ScannedLines[i]) :
        ScannedLines[i][j] \in StatsTexts

\* C12: on a successful invocation, if some non-empty line starts with '>',
\* '<', 'c', 'h' or '*' the report is 'files changed' and lists those lines in
\* output order, the first 20 of n with a remainder of n - 20 when n > 20;
\* otherwise, if a statistics line is present, it is a statistics report;
\* otherwise it is 'no files needed transfer', in particular for output that
\* holds only a 'sent ... received ...' line.
C12_ReportPrecedence ==
    pc = "reported" =>
        LET n == Len(ItemizeLines)
        IN  /\ n > 0 =>
                  /\ report.kind = "changed"
                  /\ report.shown = [i \in 1..(IF n > 20 THEN 20 ELSE n) |-> ItemizeLines[i]]
                  /\ report.more = (IF n > 20 THEN n - 20 ELSE 0)
            /\ (n = 0 /\ HasStatsLine) => report.kind = "statistics"
            /\ (n = 0 /\ ~HasStatsLine) => report.kind = "in_sync"
            /\ rsync_output = << <<"sent ", "f">> >> => report.kind = "in_sync"

C12_Witness ==
    /\ pc = "reported"
    /\ report.kind = "changed" /\ Len(report.shown) = 20 /\ report.more = 1
    /\ HasStatsLine

----------------------------------------------------------------------------
(* Properties of the command-line entry point *)

\* Some pair that was run failed, or the pair asked for was not found.
SomethingFailed ==
    \/ \E i \in 1..Len(log) : ~log[i].success
    \/ pair_arg # NoArg /\ log = <<>>

\* C13: the entry point exits with 0 only on full success and with 1 when a
\* pair failed or the named pair was not found, on the run-all path and on the
\* --pair NAME path alike.
C13_ExitCodeTellsFailure ==
    pc = "exited" => exit_code = (IF SomethingFailed THEN 1 ELSE 0)

----------------------------------------------------------------------------
(* Properties of the file system across one sync_all *)

\* C14: sync_all in dry-run mode changes nothing on either side: the
\* directories and files that exist after it are those that existed before it
\* (rsync itself changing nothing under --dry-run).
C14_DryRunChangesNothing ==
    (pc = "done" /\ dry_run) => (fs = fs_before /\ contents = contents_before)

Succeeded(k) == \E i \in 1..Len(log) : log[i].pair = k /\ log[i].success

\* The positions g such that pairs 2g - 1 and 2g are the remote->local and the
\* local->remote pair of one bidirectional directory.
Groups == 1..(NumData + NumVideo)

RemoteSide(g) == Pairs[2 * g - 1].source

LocalSide(g) == Pairs[2 * g - 1].destination

\* C15: for a bidirectional directory whose two pairs are both enabled and
\* both succeed, a file deleted on the local side before the run and still
\* present on the remote side is absent from the remote side after one real
\* sync_all run.
C15_LocalDeletionReachesRemote ==
    (pc = "done" /\ ~dry_run) =>
        \A g \in Groups :
            ( /\ Pairs[2 * g - 1].enabled /\ Pairs[2 * g].enabled
              /\ Succeeded(2 * g - 1) /\ Succeeded(2 * g)
              /\ contents_before[LocalSide(g)] = "none"
              /\ contents_before[RemoteSide(g)] # "none" )
            => contents[RemoteSide(g)] = "none"

\* Entry i of the log is a successful transfer from src to dst.
Transferred(i, src, dst) ==
    /\ log[i].success
    /\ Pairs[log[i].pair].source = src /\ Pairs[log[i].pair].destination = dst

\* Every successful --delete transfer into the remote directory of g comes
\* after a successful transfer out of it into the local directory.
PulledBeforePushed(g) ==
    \A i \in 1..Len(log) :
        (Transferred(i, LocalSide(g), RemoteSide(g)) /\ HasDelete(Pairs[log[i].pair]))
            => \E j \in 1..(i - 1) : Transferred(j, RemoteSide(g), LocalSide(g))

KeptOnSomeSide(g) ==
    contents_before[RemoteSide(g)] # "none"
        => (contents[RemoteSide(g)] # "none" \/ contents[LocalSide(g)] # "none")

\* C20 as stated: for a bidirectional directory, a file present on the remote
\* side before a sync_all run is present on at least one of the two sides
\* after it, for every combination of the enabled flags of its two pairs and
\* every outcome of the remote->local pair.
C20_RemoteFileNeverLost ==
    pc = "done" => \A g \in Groups : KeptOnSomeSide(g)

\* C20 amended: a file present on the remote side before a sync_all run is
\* present on at least one of the two sides after it when the run is a dry run
\* or every successful local->remote --delete transfer into the directory
\* comes after a successful remote->local transfer out of it.
C20_RemoteFileKeptAfterPull ==
    pc = "done" =>
        \A g \in Groups : (dry_run \/ PulledBeforePushed(g)) => KeptOnSomeSide(g)

C20_Witness ==
    /\ pc = "done" /\ ~dry_run
    /\ \E g \in Groups :
          /\ contents_before[RemoteSide(g)] = "v1" /\ contents_before[LocalSide(g)] = "none"
          /\ PulledBeforePushed(g)
          /\ \E i \in 1..Len(log) :
                Transferred(i, LocalSide(g), RemoteSide(g)) /\ HasDelete(Pairs[log[i].pair])
          /\ \E i \in 1..Len(log) : ~log[i].success
          /\ contents[RemoteSide(g)] = "v1" /\ contents[LocalSide(g)] = "v1"

----------------------------------------------------------------------------
(* Properties of the argument vector *)

Count(texts) == Cardinality({i \in 1..Len(cmd) : cmd[i] \in texts})

\* The arguments that ask rsync for verbose output: -v, --verbose, and the
\* cluster -av of the generated options.
VerboseArgs == {Arg("-v"), Arg("--verbose"), Arg("-av")}

\* C16: for every pair generated by load_config the argument vector asks for
\* verbose output, for statistics and for itemized changes exactly once each;
\* in particular verbosity is not asked for again when the options hold -av.
C16_ReportingRequestedOnce ==
    (pc = "built" /\ cmd_args.generated) =>
        /\ Count(VerboseArgs) = 1
        /\ Count({Arg("--stats")}) = 1
        /\ Count({Arg("--itemize-changes")}) = 1

ReportingFlags == {Arg("-v"), Arg("--stats"), Arg("--itemize-changes")}

EndsInOneSeparator(text) ==
    /\ Len(text) >= 1 /\ text[Len(text)] = "/"
    /\ Len(text) >= 2 => text[Len(text) - 1] # "/"

\* C17: the argument vector is the tool name, the pair's options in order, the
\* reporting flags, '--exclude' and its pattern for each exclude pattern in
\* configured order, '--dry-run' iff dry_run, the source ending in exactly one
\* '/', and last the destination with no trailing '/'.
C17_ArgumentVectorLayout ==
    pc = "built" =>
        LET o == cmd_args.rsync_options
            e == config.exclude_patterns
            d == IF cmd_args.dry_run THEN 1 ELSE 0
            n == Len(cmd)
        IN  \E k \in 0..3 :
                LET b == 1 + Len(o) + k
                IN  /\ n = b + 2 * Len(e) + d + 2
                    /\ cmd[1] = Arg("rsync")
                    /\ \A i \in 1..Len(o) : cmd[1 + i] = Arg(o[i])
                    /\ \A i \in 1..k : cmd[1 + Len(o) + i] \in ReportingFlags
                    /\ \A j \in 1..Len(e) :
                          cmd[b + 2 * j - 1] = Arg("--exclude") /\ cmd[b + 2 * j] = Arg(e[j])
                    /\ d = 1 => cmd[n - 2] = Arg("--dry-run")
                    /\ Count({Arg("--dry-run")}) = d
                    /\ EndsInOneSeparator(cmd[n - 1])
                    /\ rstrip(cmd[n - 1]) = rstrip(cmd_args.source)
                    /\ cmd[n] = rstrip(cmd_args.destination)
                    /\ Len(cmd[n]) >= 1 => cmd[n][Len(cmd[n])] # "/"

C17_Witness ==
    /\ pc = "built" /\ cmd_args.dry_run
    /\ Len(config.exclude_patterns) >= 2
    /\ cmd_args.rsync_options = <<"--verbose", "--stats">>
    /\ cmd_args.source = LocalDir \o <<"/", "/">>
    /\ cmd_args.destination = RemoteDir \o <<"/">>
    /\ Len(cmd) = 19

----------------------------------------------------------------------------
(* Properties of the use of the persisted document *)

\* C18: in every run the persisted document is read at most once and written
\* exactly once, after the override merge and before any pair is executed,
\* whether or not the config changed and whether or not the prior document
\* could be loaded; a failed write neither stops the run nor changes the
\* in-memory config.
C18_ReadOnceWrittenOnce ==
    /\ pc = "start" => (reads = 0 /\ writes = 0 /\ log = <<>>)
    /\ pc # "start" =>
          /\ reads = (IF read_file.kind = "missing" THEN 0 ELSE 1)
          /\ writes = 1
          /\ config = apply_user_config(default_config, read_file).config
          /\ save_status = "ok" => config_file = json_dump(config)

C18_Witness ==
    /\ pc = "done" /\ writes = 1 /\ reads = 1
    /\ load_status = "failed" /\ save_status = "write_failed"
    /\ \E i \in 1..Len(log) : log[i].success

----------------------------------------------------------------------------
(* Properties of sync_pair_by_name *)

Named(name) == {k \in 1..Len(Pairs) : Pairs[k].name = name}

\* C19: sync_pair_by_name runs sync_pair on the first pair whose name is
\* exactly the one asked for, whatever its enabled flag (a disabled pair is
\* validated and, when valid, invoked), and returns what sync_pair returned;
\* when no pair has the name it returns failure and nothing was validated or
\* invoked.
C19_ByNameRunsFirstMatch ==
    pc = "returned" =>
        IF Named(pair_arg) = {}
        THEN log = <<>> /\ ~result
        ELSE /\ Len(log) = 1
             /\ log[1].pair \in Named(pair_arg)
             /\ \A k \in Named(pair_arg) : log[1].pair <= k
             /\ log[1].valid => log[1].invoked
             /\ result = log[1].success

C19_Witness ==
    /\ pc = "returned"
    /\ Cardinality(Named(pair_arg)) = 2
    /\ \A k \in Named(pair_arg) : Pairs[k].enabled = FALSE
    /\ log[1].invoked /\ result

----------------------------------------------------------------------------
(* Properties of two sync_all runs in a row *)

SucceededIn(entries, k) ==
    \E i \in 1..Len(entries) : entries[i].pair = k /\ entries[i].success

\* Both pairs of the bidirectional directory g are enabled and both are logged
\* as successful in entries.
BothSucceededIn(entries, g) ==
    /\ Pairs[2 * g - 1].enabled /\ Pairs[2 * g].enabled
    /\ SucceededIn(entries, 2 * g - 1) /\ SucceededIn(entries, 2 * g)

\* The two sides of g are directories that hold the same of the file f.
SameOnBothSides(g) ==
    /\ fs[RemoteSide(g)] = "dir" /\ fs[LocalSide(g)] = "dir"
    /\ contents[RemoteSide(g)] = contents[LocalSide(g)]

\* Since the present sync_all was entered neither side of g has changed.
BothSidesUntouched(g) ==
    /\ fs[RemoteSide(g)] = fs_before[RemoteSide(g)]
    /\ fs[LocalSide(g)] = fs_before[LocalSide(g)]
    /\ contents[RemoteSide(g)] = contents_before[RemoteSide(g)]
    /\ contents[LocalSide(g)] = contents_before[LocalSide(g)]

\* C21 as stated: for a bidirectional directory whose two pairs are both
\* enabled and both succeed in one sync_all run, the two sides hold the same
\* files with the same contents after the run, and a second run right after
\* it changes nothing on either side.
C21_Convergence ==
    \A g \in Groups :
        /\ (pc = "done" /\ BothSucceededIn(log, g)) => SameOnBothSides(g)
        /\ (first_sync.done /\ BothSucceededIn(first_sync.log, g)) => BothSidesUntouched(g)

\* C21 amended: the same for a sync_all run that is not a dry run: after a
\* real run in which both pairs of the directory are enabled and succeed the
\* two sides hold the same, and a second run right after it, dry or real,
\* changes nothing on either side.
C21_ConvergenceOfRealRun ==
    \A g \in Groups :
        /\ (pc = "done" /\ ~dry_run /\ BothSucceededIn(log, g)) => SameOnBothSides(g)
        /\ (first_sync.done /\ ~first_sync.dry_run /\ BothSucceededIn(first_sync.log, g))
               => BothSidesUntouched(g)

C21_Witness ==
    /\ pc = "done" /\ ~dry_run
    /\ first_sync.done /\ ~first_sync.dry_run
    /\ \E g \in Groups :
          /\ BothSucceededIn(first_sync.log, g) /\ BothSucceededIn(log, g)
          /\ first_sync.contents_before[RemoteSide(g)] = "v1"
          /\ first_sync.contents_before[LocalSide(g)] = "v2"
          /\ contents[RemoteSide(g)] = "v1" /\ contents[LocalSide(g)] = "v1"

----------------------------------------------------------------------------
(* Properties of the order of the two pairs of a directory *)

\* The pairs that copy the remote directory into the local one, and back.
Pulls == {k \in 1..Len(Pairs) :
             Pairs[k].source = RemoteDir /\ Pairs[k].destination = LocalDir}

Pushes == {k \in 1..Len(Pairs) :
              Pairs[k].source = LocalDir /\ Pairs[k].destination = RemoteDir}

\* Both sides held the file f before the run, in different versions.
DifferedBefore ==
    /\ contents_before[RemoteDir] # "none" /\ contents_before[LocalDir] # "none"
    /\ contents_before[RemoteDir] # contents_before[LocalDir]

\* What the local side alone held of f before the run is still on some side.
LocalContentSurvives ==
    /\ contents_before[LocalDir] # "none"
    /\ contents_before[LocalDir] # contents_before[RemoteDir]
    /\ contents_before[LocalDir] \in {contents[LocalDir], contents[RemoteDir]}

RemoteContentWins ==
    /\ DifferedBefore =>
           /\ contents[RemoteDir] = contents_before[RemoteDir]
           /\ contents[LocalDir] = contents_before[RemoteDir]
    /\ LocalContentSurvives => contents_before[RemoteDir] = "none"

\* C22 as stated: a file that is on both sides of a bidirectional directory
\* with different contents ends a successful sync_all run with the remote's
\* pre-run content on both sides, and a file's local pre-run content survives
\* the run only when the file is absent from the remote side before the run.
C22_RemoteContentWins ==
    (pc = "done" /\ result /\ Pulls # {}) => RemoteContentWins

\* C22 amended: the same for a successful sync_all run that is not a dry run
\* and in which every pair between the two directories is enabled, so that the
\* remote->local pair has run before the local->remote pair.
C22_RemoteContentWinsWhenAllRun ==
    ( /\ pc = "done" /\ result /\ ~dry_run
      /\ Pulls # {}
      /\ \A k \in Pulls \cup Pushes : Pairs[k].enabled )
        => RemoteContentWins

C22_Witness ==
    /\ pc = "done" /\ result /\ ~dry_run
    /\ Pulls # {} /\ Pushes # {}
    /\ \A k \in Pulls \cup Pushes : Pairs[k].enabled /\ Succeeded(k)
    /\ contents_before[RemoteDir] = "v1" /\ contents_before[LocalDir] = "v2"
    /\ contents[RemoteDir] = "v1" /\ contents[LocalDir] = "v1"

====
